---- MODULE Spec2Model ----
(***************************************************************************)
(* A model of pnlkit: the lot selection strategies (strategies.py) and the *)
(* PnL engine (engine.py).  Decimal amounts are modelled by integers,      *)
(* timestamps by integers counting minutes.                                *)
(***************************************************************************)
EXTENDS Integers, Sequences, FiniteSets, TLC

VARIABLES
    strategy,        \* PnLEngine.strategy: "FIFO" or "LIFO"
    state,           \* PnLEngine.state: symbol -> SymbolState (a dict, created lazily)
    realized_total,  \* PnLEngine.realized_total
    pending,         \* PnLEngine._pending_initial_positions
    call,            \* the last call made on the engine: its arguments, the calls it made, its result
    ops,             \* the initial positions and fills handed to the engine so far
    gen              \* one generator object returned by strategy.take(lots, need)

vars == <<strategy, state, realized_total, pending, call, ops, gen>>

(***************************************************************************)
(* Bounds of the model and the sets the inputs are drawn from.             *)
(***************************************************************************)
MaxOps == 3          \* initial positions and fills handed to one engine over its life
MaxLots == 3         \* lots in the queue handed to take
MaxNeed == 11        \* largest quantity asked of take

BUY == "buy"
SELL == "sell"
Sides == {BUY, SELL}

Fill(ts, product, side, price, qty) ==
    [ts |-> ts, product |-> product, side |-> side, price |-> price, qty |-> qty]

\* The fills of the model's first market: X alone, trading at 100, 110 and 90 at three
\* successive minutes, in sizes 4 and 10.
FillsA ==
    {Fill(q[1], "X", side, q[2], qty) :
        q \in {<<11, 100>>, <<12, 110>>, <<13, 90>>}, side \in Sides, qty \in {4, 10}}

\* The fills of the second market: Y trades at 18 in size 50, X a minute later in size 30.
Fills ==
    {Fill(12, "Y", side, 18, 50) : side \in Sides}
    \cup {Fill(13, "X", side, 18, 30) : side \in Sides}

\* The initial positions that can be set there: long, short or flat.
Symbols == {"X", "Y"}
SeedQtys == {-50, 0, 50}
SeedPrices == {20}
SeedTimes == {9}

\* Optional[...]: None is the empty sequence, a present value x is <<x>>.
None == <<>>
Some(x) == <<x>>

Min(a, b) == IF a <= b THEN a ELSE b
Abs(x) == IF x < 0 THEN -x ELSE x

RECURSIVE SumSeq(_)
SumSeq(s) == IF s = <<>> THEN 0 ELSE s[1] + SumSeq(Tail(s))

\* float(Decimal): binary64 holds every integer of magnitude up to 2^53 exactly, and
\* every amount of the model is an integer far below that.
Float(x) == x

(***************************************************************************)
(* engine.py: Lot and SymbolState                                          *)
(***************************************************************************)
Lot(q, p, t) == [qty |-> q, price |-> p, ts_open |-> t]

SymbolState ==
    [long_lots |-> <<>>, short_lots |-> <<>>, realized_pnl |-> 0,
     rpnl_hist |-> <<>>, upnl_hist |-> <<>>, last_price |-> None]

LotQty(lots) == SumSeq([i \in 1..Len(lots) |-> lots[i].qty])

long_qty(st) == LotQty(st.long_lots)

short_qty(st) == LotQty(st.short_lots)

position(st) == long_qty(st) - short_qty(st)

\* Mutant of unrealized: the short lots are left out.
unrealized_LongsOnly(st) ==
    IF st.last_price = None THEN 0
    ELSE SumSeq([i \in 1..Len(st.long_lots) |->
                    (st.last_price[1] - st.long_lots[i].price) * st.long_lots[i].qty])

unrealized(st) ==
    IF st.last_price = None THEN 0
    ELSE LET lp == st.last_price[1] IN
         SumSeq([i \in 1..Len(st.long_lots) |->
                    (lp - st.long_lots[i].price) * st.long_lots[i].qty])
         + SumSeq([i \in 1..Len(st.short_lots) |->
                    (st.short_lots[i].price - lp) * st.short_lots[i].qty])

(***************************************************************************)
(* strategies.py: FIFOSelector.take and LIFOSelector.take.  The loop body  *)
(* is split where the generator yields: TakeQty is computed before the     *)
(* yield, Settle runs when the generator is resumed.                       *)
(***************************************************************************)
\* Mutants of PickLot: both strategies take from the tail, or both from the head.
PickLot_Tail(strat, lots) == Len(lots)
PickLot_Head(strat, lots) == 1

\* lot = lots[0] (FIFO) or lots[-1] (LIFO): the index of the lot in the queue
PickLot(strat, lots) == IF strat = "FIFO" THEN 1 ELSE Len(lots)

\* Mutant of TakeQty: the whole lot is taken, whatever is needed.
TakeQty_WholeLot(lot, need) == lot.qty

\* take = min(lot.qty, need)
TakeQty(lot, need) == Min(lot.qty, need)

\* Mutant of Settle: the lot taken from leaves the queue, exhausted or not.
Settle_DropsPartial(strat, lots, take) ==
    IF strat = "FIFO" THEN Tail(lots) ELSE SubSeq(lots, 1, Len(lots) - 1)

\* lot.qty -= take; if lot.qty == 0: lots.popleft() (FIFO) or lots.pop() (LIFO)
Settle(strat, lots, take) ==
    LET i == PickLot(strat, lots)
        dec == [lots EXCEPT ![i].qty = @ - take]
    IN IF dec[i].qty = 0
       THEN (IF strat = "FIFO" THEN Tail(dec) ELSE SubSeq(dec, 1, Len(dec) - 1))
       ELSE dec

\* Mutant of TakeGoesOn: while need and lots.
TakeGoesOn_Nonzero(lots, need) == need # 0 /\ Len(lots) > 0

\* while need > 0 and lots
TakeGoesOn(lots, need) == need > 0 /\ Len(lots) > 0

\* The generator run to its end: the pairs it yields and the queue it leaves.
RECURSIVE take(_, _, _)
take(strat, lots, need) ==
    IF TakeGoesOn(lots, need)
    THEN LET lot == lots[PickLot(strat, lots)]
             tk == TakeQty(lot, need)
             rest == take(strat, Settle(strat, lots, tk), need - tk)
         IN [pairs |-> <<<<tk, lot>>>> \o rest.pairs, lots |-> rest.lots]
    ELSE [pairs |-> <<>>, lots |-> lots]

(***************************************************************************)
(* engine.py: PnLEngine.  An engine value is the record                    *)
(* [state, realized_total, pending]; every method is an operator from the  *)
(* engine before the call to the engine after it (and what it returns).    *)
(***************************************************************************)
\* self.state.setdefault(sym, SymbolState()): the dict after the call
_get(st, sym) == IF sym \in DOMAIN st THEN st ELSE st @@ (sym :> SymbolState)

\* Mutant of seed_position: the queues are not cleared before the lot is appended.
seed_position_NoClear(st, symbol, qty, avg_price, timestamp) ==
    LET s == _get(st, symbol) IN
    [s EXCEPT ![symbol] =
        [@ EXCEPT
           !.long_lots = IF qty > 0 THEN @ \o <<Lot(qty, avg_price, timestamp)>> ELSE @,
           !.short_lots = IF qty < 0 THEN @ \o <<Lot(Abs(qty), avg_price, timestamp)>> ELSE @,
           !.last_price = IF avg_price > 0 THEN Some(avg_price) ELSE @]]

\* Mutant of seed_position: the last price is set whatever avg_price is.
seed_position_AlwaysMarks(st, symbol, qty, avg_price, timestamp) ==
    LET s == _get(st, symbol) IN
    [s EXCEPT ![symbol] =
        [@ EXCEPT
           !.long_lots = IF qty > 0 THEN <<Lot(qty, avg_price, timestamp)>> ELSE <<>>,
           !.short_lots = IF qty < 0 THEN <<Lot(Abs(qty), avg_price, timestamp)>> ELSE <<>>,
           !.last_price = Some(avg_price)]]

\* set_initial_position, timestamp given (lines 107-124): the dict after the call
\* Mutant of seed_position: the symbol gets a new SymbolState with the seeded lot.
seed_position_Fresh(st, symbol, qty, avg_price, timestamp) ==
    [_get(st, symbol) EXCEPT ![symbol] =
        [SymbolState EXCEPT
           !.long_lots = IF qty > 0 THEN <<Lot(qty, avg_price, timestamp)>> ELSE <<>>,
           !.short_lots = IF qty < 0 THEN <<Lot(Abs(qty), avg_price, timestamp)>> ELSE <<>>,
           !.last_price = IF avg_price > 0 THEN Some(avg_price) ELSE None]]

seed_position(st, symbol, qty, avg_price, timestamp) ==
    LET s == _get(st, symbol) IN
    [s EXCEPT ![symbol] =
        [@ EXCEPT
           !.long_lots = IF qty > 0 THEN <<Lot(qty, avg_price, timestamp)>> ELSE <<>>,
           !.short_lots = IF qty < 0 THEN <<Lot(Abs(qty), avg_price, timestamp)>> ELSE <<>>,
           !.last_price = IF avg_price > 0 THEN Some(avg_price) ELSE @]]

\* Mutant of set_initial_position: self._get(symbol) is called before the test of timestamp.
set_initial_position_GetsFirst(eng, symbol, qty, avg_price, timestamp) ==
    IF timestamp = None
    THEN [eng EXCEPT !.state = _get(@, symbol),
                     !.pending = Append(@,
             [symbol |-> symbol, qty |-> qty, avg_price |-> avg_price, timestamp |-> None])]
    ELSE [eng EXCEPT !.state = seed_position(@, symbol, qty, avg_price, timestamp[1])]

\* set_initial_position: timestamp is None or <<t>>
set_initial_position(eng, symbol, qty, avg_price, timestamp) ==
    IF timestamp = None
    THEN [eng EXCEPT !.pending = Append(@,
             [symbol |-> symbol, qty |-> qty, avg_price |-> avg_price, timestamp |-> None])]
    ELSE [eng EXCEPT !.state = seed_position(@, symbol, qty, avg_price, timestamp[1])]

\* sum(st.unrealized() for st in self.state.values())
unrealized_total(st) ==
    LET RECURSIVE Over(_)
        Over(S) == IF S = {} THEN 0
                   ELSE LET sym == CHOOSE x \in S : TRUE
                        IN unrealized(st[sym]) + Over(S \ {sym})
    IN Over(DOMAIN st)

\* Mutants of MatchPnl: a BUY computed as a SELL is, and both sides with the sign wrong.
MatchPnl_SellOnly(f, pairs) ==
    [i \in 1..Len(pairs) |-> (f.price - pairs[i][2].price) * pairs[i][1]]
MatchPnl_Negated(f, pairs) ==
    [i \in 1..Len(pairs) |->
        IF f.side = SELL THEN (pairs[i][2].price - f.price) * pairs[i][1]
                         ELSE (f.price - pairs[i][2].price) * pairs[i][1]]

\* Mutant of MatchPnl: every pair is priced at the first lot taken from.
MatchPnl_FirstLot(f, pairs) ==
    [i \in 1..Len(pairs) |->
        IF f.side = SELL THEN (f.price - pairs[1][2].price) * pairs[i][1]
                         ELSE (pairs[1][2].price - f.price) * pairs[i][1]]

\* the realized delta of each (take, lot) pair of a fill, in the order matched
\* (lines 227 and 237)
MatchPnl(f, pairs) ==
    [i \in 1..Len(pairs) |->
        IF f.side = SELL THEN (f.price - pairs[i][2].price) * pairs[i][1]
                         ELSE (pairs[i][2].price - f.price) * pairs[i][1]]

\* Mutant of Taken: left is never decremented.
Taken_Forgotten(pairs) == 0

\* the quantity the pairs took: f.qty less the local variable left
Taken(pairs) == SumSeq([i \in 1..Len(pairs) |-> pairs[i][1]])

\* the local variable pnl when the loop has ended: 0, or the last pair's delta
LastPnl(deltas) == IF deltas = <<>> THEN 0 ELSE deltas[Len(deltas)]

\* Mutant of OffsetLots: every fill offsets the long lots.
OffsetLots_LongOnly(st, f) == st.long_lots

\* the queue a fill offsets: the long lots for a SELL, the short lots for a BUY
OffsetLots(st, f) == IF f.side = SELL THEN st.long_lots ELSE st.short_lots

\* Mutant of Opened: the lot opened has the fill's whole quantity.
Opened_Whole(f, left) == IF left > 0 THEN <<Lot(f.qty, f.price, f.ts)>> ELSE <<>>

\* Mutant of Opened: if left >= 0.
Opened_OnZero(f, left) == IF left >= 0 THEN <<Lot(left, f.price, f.ts)>> ELSE <<>>

\* if left > 0: the lot appended to the other queue (lines 232-233, 242-243)
Opened(f, left) == IF left > 0 THEN <<Lot(left, f.price, f.ts)>> ELSE <<>>

\* apply_fill, lines 222-243, on the symbol's state: tk is what take yielded and left
\* behind, deltas the realized delta of each pair
Booked(st, f, tk, deltas) ==
    [st EXCEPT
       !.last_price = Some(f.price),
       !.long_lots = IF f.side = SELL THEN tk.lots
                     ELSE @ \o Opened(f, f.qty - Taken(tk.pairs)),
       !.short_lots = IF f.side = SELL THEN @ \o Opened(f, f.qty - Taken(tk.pairs))
                      ELSE tk.lots,
       !.realized_pnl = @ + SumSeq(deltas),
       !.rpnl_hist = @ \o deltas]

\* apply_fill, lines 245-251: s1 is the dict after the matching, pnl, up and up_total
\* the local variables of those names, rt the new self.realized_total
Returned(eng, f, s1, pnl, rt, up, up_total) ==
    [eng |-> [eng EXCEPT !.state = [s1 EXCEPT ![f.product].upnl_hist = Append(@, up)],
                         !.realized_total = rt],
     ret |-> [realized_total |-> rt, realized_pnl |-> s1[f.product].realized_pnl,
              pnl |-> pnl, up_total |-> up_total, up |-> up,
              gross_total |-> rt + up_total,
              gross_total_symbol |-> s1[f.product].realized_pnl + up,
              gross |-> pnl + up]]

\* Mutant of Marked: self.realized_total is not added to.
Marked_TotalUntouched(eng, f, s1, deltas) ==
    Returned(eng, f, s1, LastPnl(deltas), eng.realized_total,
             unrealized(s1[f.product]), unrealized_total(s1))

Marked(eng, f, s1, deltas) ==
    Returned(eng, f, s1, LastPnl(deltas), eng.realized_total + SumSeq(deltas),
             unrealized(s1[f.product]), unrealized_total(s1))

\* Mutant of Matched: the fill's price becomes the last price of every symbol.
Matched_MarksAll(eng, f, s0, tk, deltas) ==
    Marked(eng, f,
           [sym \in DOMAIN s0 |->
               IF sym = f.product THEN Booked(s0[sym], f, tk, deltas)
               ELSE [s0[sym] EXCEPT !.last_price = Some(f.price)]],
           deltas)

Matched(eng, f, s0, tk, deltas) ==
    Marked(eng, f, [s0 EXCEPT ![f.product] = Booked(@, f, tk, deltas)], deltas)

Offset(eng, f, s0, tk) == Matched(eng, f, s0, tk, MatchPnl(f, tk.pairs))

\* apply_fill: the engine after the call and the tuple returned
apply_fill(strat, eng, f) ==
    Offset(eng, f, _get(eng.state, f.product),
           take(strat, OffsetLots(_get(eng.state, f.product)[f.product], f), f.qty))

\* sorted(fills, key=lambda x: x.ts): a stable sort by timestamp
\* Mutant of SortByTs: the list is taken as given.
SortByTs_AsGiven(fills) == fills

RECURSIVE InsertByTs(_, _)
InsertByTs(sorted, f) ==
    IF sorted = <<>> THEN <<f>>
    ELSE IF sorted[Len(sorted)].ts <= f.ts THEN Append(sorted, f)
    ELSE Append(InsertByTs(SubSeq(sorted, 1, Len(sorted) - 1), f), sorted[Len(sorted)])

RECURSIVE SortByTs(_)
SortByTs(fills) ==
    IF fills = <<>> THEN <<>>
    ELSE InsertByTs(SortByTs(SubSeq(fills, 1, Len(fills) - 1)), fills[Len(fills)])

\* Mutant of MinTs: the first fill of the list is taken for the earliest.
MinTs_First(fills) == fills[1].ts

\* min(f.ts for f in fills), fills not empty
MinTs(fills) ==
    CHOOSE t \in {fills[i].ts : i \in 1..Len(fills)} :
        \A i \in 1..Len(fills) : t <= fills[i].ts

\* timedelta(minutes=1), in the model's unit of time
OneMinute == 1

\* Mutant of avg_cost: the mean of the lot prices, not weighted.
avg_cost_Unweighted(lots) ==
    IF LotQty(lots) = 0 THEN None
    ELSE Some(<<SumSeq([i \in 1..Len(lots) |-> lots[i].price]), Len(lots)>>)

\* avg_cost(lots): None, or the quotient sum(qty * price) / sum(qty) as <<dividend, divisor>>
avg_cost(lots) ==
    IF LotQty(lots) = 0 THEN None
    ELSE Some(<<SumSeq([i \in 1..Len(lots) |-> lots[i].qty * lots[i].price]), LotQty(lots)>>)

\* lots_view(lots)
lots_view(lots) ==
    [i \in 1..Len(lots) |->
        [qty |-> Float(lots[i].qty), price |-> Float(lots[i].price),
         ts_open |-> lots[i].ts_open]]

\* _snapshot_states
_snapshot_states(st) ==
    [sym \in DOMAIN st |->
        [last_price |-> IF st[sym].last_price # None
                        THEN Some(Float(st[sym].last_price[1])) ELSE None,
         realized_total |-> Float(st[sym].realized_pnl),
         long_lots |-> lots_view(st[sym].long_lots),
         short_lots |-> lots_view(st[sym].short_lots),
         long_qty |-> Float(LotQty(st[sym].long_lots)),
         short_qty |-> Float(LotQty(st[sym].short_lots)),
         net_qty |-> Float(LotQty(st[sym].long_lots) - LotQty(st[sym].short_lots)),
         avg_cost_long |-> avg_cost(st[sym].long_lots),
         avg_price_short |-> avg_cost(st[sym].short_lots)]]

\* get_current_positions
get_current_positions(st) == _snapshot_states(st)

\* A run of process_fills so far: the engine, the rows appended, and log, the calls made
\* on the engine with the dict each left.
Run(eng) == [eng |-> eng, rows |-> <<>>, log |-> <<>>]

Seeded(run, p, ts, eng) ==
    [run EXCEPT !.eng = eng,
                !.log = Append(@, [op |-> "set_initial_position", symbol |-> p.symbol,
                                   qty |-> p.qty, avg_price |-> p.avg_price,
                                   timestamp |-> Some(ts), after |-> eng.state])]

\* process_fills, lines 263-269: the pending initial positions, in the order registered
RECURSIVE ApplyPending(_, _, _)
ApplyPending(run, poss, ts) ==
    IF poss = <<>> THEN run
    ELSE ApplyPending(
            Seeded(run, poss[1], ts,
                   set_initial_position(run.eng, poss[1].symbol, poss[1].qty,
                                        poss[1].avg_price, Some(ts))),
            Tail(poss), ts)

\* Mutant of Resolved: the pending positions are applied last registered first.
Resolved_LastFirst(eng, fills) ==
    IF eng.pending # <<>> /\ fills # <<>>
    THEN [ApplyPending(Run(eng),
                       [i \in 1..Len(eng.pending) |-> eng.pending[Len(eng.pending) + 1 - i]],
                       MinTs(fills) - OneMinute)
             EXCEPT !.eng.pending = <<>>]
    ELSE Run(eng)

\* Mutant of Resolved: the pending positions are applied and not cleared.
Resolved_KeepsPending(eng, fills) ==
    IF eng.pending # <<>> /\ fills # <<>>
    THEN ApplyPending(Run(eng), eng.pending, MinTs(fills) - OneMinute)
    ELSE Run(eng)

\* Mutant of Resolved: the pending positions are applied whatever the list of fills.
Resolved_WhateverFills(eng, fills) ==
    IF eng.pending # <<>>
    THEN [ApplyPending(Run(eng), eng.pending,
                       IF fills = <<>> THEN 0 ELSE MinTs(fills) - OneMinute)
             EXCEPT !.eng.pending = <<>>]
    ELSE Run(eng)

\* process_fills, lines 259-272
Resolved(eng, fills) ==
    IF eng.pending # <<>> /\ fills # <<>>
    THEN [ApplyPending(Run(eng), eng.pending, MinTs(fills) - OneMinute)
             EXCEPT !.eng.pending = <<>>]
    ELSE Run(eng)

\* one row of the DataFrame (lines 279-290)
Row(f, ret) ==
    [ts |-> f.ts, symbol |-> f.product,
     realized_total |-> Float(ret.realized_total),
     unrealized_total |-> Float(ret.up_total),
     gross_total |-> Float(ret.gross_total),
     realized_symbol |-> Float(ret.pnl),
     unrealized_symbol |-> Float(ret.up),
     gross_symbol |-> Float(ret.gross),
     realized_total_symbol |-> Float(ret.realized_pnl),
     gross_total_symbol |-> Float(ret.gross_total_symbol)]

Applied(run, f, r) ==
    [eng |-> r.eng, rows |-> Append(run.rows, Row(f, r.ret)),
     log |-> Append(run.log, [op |-> "apply_fill", f |-> f, after |-> r.eng.state])]

\* process_fills, lines 274-290: the loop over the sorted fills
RECURSIVE ApplyAll(_, _, _)
ApplyAll(strat, run, fills) ==
    IF fills = <<>> THEN run
    ELSE ApplyAll(strat, Applied(run, fills[1], apply_fill(strat, run.eng, fills[1])),
                  Tail(fills))

\* the PnLResult returned (lines 292-293), with the engine and the calls made
Result(run) ==
    [eng |-> run.eng, log |-> run.log, df |-> run.rows,
     states |-> _snapshot_states(run.eng.state)]

\* process_fills
process_fills(strat, eng, fills) ==
    Result(ApplyAll(strat, Resolved(eng, fills), SortByTs(fills)))

(***************************************************************************)
(* The engine as a state machine: one action per public method.            *)
(***************************************************************************)
Eng == [state |-> state, realized_total |-> realized_total, pending |-> pending]

NoCall == [op |-> "none"]
NoGen == [pc |-> "none"]

\* PnLEngine(strategy)
Init ==
    /\ strategy \in {"FIFO", "LIFO"}
    /\ state = <<>>
    /\ realized_total = 0
    /\ pending = <<>>
    /\ call = NoCall
    /\ ops = 0
    /\ gen = NoGen

\* engine.set_initial_position(symbol, qty, avg_price, timestamp)
SetInitialPosition(symbol, qty, avg_price, timestamp) ==
    /\ ops < MaxOps
    /\ ops' = ops + 1
    /\ state' = set_initial_position(Eng, symbol, qty, avg_price, timestamp).state
    /\ pending' = set_initial_position(Eng, symbol, qty, avg_price, timestamp).pending
    /\ call' = [op |-> "set_initial_position", symbol |-> symbol, qty |-> qty,
                avg_price |-> avg_price, timestamp |-> timestamp]
    /\ UNCHANGED <<strategy, realized_total, gen>>

\* the engine and the call's record once apply_fill has returned r
FillApplied(f, r) ==
    /\ state' = r.eng.state
    /\ realized_total' = r.eng.realized_total
    /\ call' = [op |-> "apply_fill", f |-> f, ret |-> r.ret]

\* engine.apply_fill(f)
ApplyFill(f) ==
    /\ ops < MaxOps
    /\ ops' = ops + 1
    /\ FillApplied(f, apply_fill(strategy, Eng, f))
    /\ UNCHANGED <<strategy, pending, gen>>

\* the engine and the call's record once process_fills has returned r
FillsProcessed(fills, r) ==
    /\ state' = r.eng.state
    /\ realized_total' = r.eng.realized_total
    /\ pending' = r.eng.pending
    /\ call' = [op |-> "process_fills", fills |-> fills, log |-> r.log,
                df |-> r.df, states |-> r.states]

\* engine.process_fills(fills); an empty list counts as one
ProcessFills(fills) ==
    /\ ops < MaxOps
    /\ ops + Len(fills) <= MaxOps
    /\ ops' = ops + (IF fills = <<>> THEN 1 ELSE Len(fills))
    /\ FillsProcessed(fills, process_fills(strategy, Eng, fills))
    /\ UNCHANGED <<strategy, gen>>

\* the lists of at most n fills of F
Batches(F, n) == UNION {[1..k -> F] : k \in 0..n}

\* Both markets' specifications: an engine, and any calls on it.
Next ==
    \/ \E symbol \in Symbols, qty \in SeedQtys, avg_price \in SeedPrices,
          timestamp \in {None} \cup {Some(t) : t \in SeedTimes} :
            SetInitialPosition(symbol, qty, avg_price, timestamp)
    \/ \E f \in Fills : ApplyFill(f)
    \/ \E fills \in Batches(Fills, MaxOps - ops) : ProcessFills(fills)

Spec == Init /\ [][Next]_vars

NextA ==
    \/ \E f \in FillsA : ApplyFill(f)
    \/ \E fills \in Batches(FillsA, MaxOps - ops) : ProcessFills(fills)

SpecA == Init /\ [][NextA]_vars

\* The second market again, with initial positions given a time and an average price
\* that is above zero or not, and fills applied one by one.
MarkedPrices == {0, 20}
NextM ==
    \/ \E symbol \in Symbols, qty \in SeedQtys \ {0}, avg_price \in MarkedPrices,
          t \in SeedTimes :
            SetInitialPosition(symbol, qty, avg_price, Some(t))
    \/ \E f \in Fills : ApplyFill(f)

SpecM == Init /\ [][NextM]_vars

\* The engine fed fills the core does not validate: of quantity zero and below, next to
\* ordinary ones, at two prices around the seeds' 20.
FillsZ ==
    {Fill(13, "X", side, price, qty) :
        side \in Sides, price \in {18, 22}, qty \in {-30, 0, 30}}

NextZ ==
    \/ \E qty \in SeedQtys \ {0}, avg_price \in SeedPrices, t \in SeedTimes :
            SetInitialPosition("X", qty, avg_price, Some(t))
    \/ \E f \in FillsZ : ApplyFill(f)

SpecZ == Init /\ [][NextZ]_vars

\* Two engines fed the same calls: the engine of the variables, of either strategy, and
\* a twin of the other strategy, kept in the call's record with a note of whether every
\* seed so far came before the first fill of its symbol.
MaxPairOps == 5

Other(strat) == IF strat = "FIFO" THEN "LIFO" ELSE "FIFO"

Twin ==
    IF call.op = "none" THEN [state |-> <<>>, realized_total |-> 0, pending |-> <<>>]
    ELSE call.twin

SeedsFirst == call.op = "none" \/ call.seeds_first

NoFillYet(symbol) == symbol \notin DOMAIN state \/ state[symbol].upnl_hist = <<>>

\* engine.set_initial_position(symbol, qty, avg_price, timestamp) on both engines
SeedBoth(symbol, qty, avg_price, timestamp) ==
    /\ ops < MaxPairOps
    /\ ops' = ops + 1
    /\ state' = set_initial_position(Eng, symbol, qty, avg_price, timestamp).state
    /\ call' = [op |-> "set_initial_position", symbol |-> symbol, qty |-> qty,
                avg_price |-> avg_price, timestamp |-> timestamp,
                twin |-> set_initial_position(Twin, symbol, qty, avg_price, timestamp),
                seeds_first |-> SeedsFirst /\ NoFillYet(symbol)]
    /\ UNCHANGED <<strategy, realized_total, pending, gen>>

\* both engines and the call's record once apply_fill has returned r and, on the twin, t
BothApplied(f, r, t) ==
    /\ state' = r.eng.state
    /\ realized_total' = r.eng.realized_total
    /\ call' = [op |-> "apply_fill", f |-> f, ret |-> r.ret,
                twin |-> t.eng, twin_ret |-> t.ret, seeds_first |-> SeedsFirst]

\* engine.apply_fill(f) on both engines
FillBoth(f) ==
    /\ ops < MaxPairOps
    /\ ops' = ops + 1
    /\ BothApplied(f, apply_fill(strategy, Eng, f), apply_fill(Other(strategy), Twin, f))
    /\ UNCHANGED <<strategy, pending, gen>>

NextPair ==
    \/ \E symbol \in Symbols, qty \in SeedQtys \ {0}, avg_price \in SeedPrices,
          t \in SeedTimes :
            SeedBoth(symbol, qty, avg_price, Some(t))
    \/ \E f \in Fills : FillBoth(f)

SpecPair == Init /\ [][NextPair]_vars

(***************************************************************************)
(* strategies.py: one generator of take(lots, need), resumed step by step. *)
(* The caller (the for loops of apply_fill) resumes it until it is done.   *)
(***************************************************************************)
\* The queues handed to take: lots of quantity 2 or 5, opened at 1, 2, 3, ... in order.
LotQueues ==
    UNION {{[i \in 1..n |-> Lot(q[i], 100, i)] : q \in [1..n -> {2, 5}]} : n \in 0..MaxLots}

\* strategy.take(lots, need): the generator object, not yet started
GenNew(lots, need) ==
    [pc |-> "created", lots0 |-> lots, need0 |-> need, lots |-> lots, need |-> need,
     take |-> None, out |-> <<>>]

InitTake ==
    /\ strategy \in {"FIFO", "LIFO"}
    /\ state = <<>>
    /\ realized_total = 0
    /\ pending = <<>>
    /\ call = NoCall
    /\ ops = 0
    /\ gen \in {GenNew(lots, need) : lots \in LotQueues, need \in (-1)..MaxNeed}

\* the generator's frame when it is resumed after a yield: lines 30-33 and 44-47
Resumed(g) ==
    IF g.pc = "yielded"
    THEN [g EXCEPT !.lots = Settle(strategy, g.lots, g.take[1]), !.need = @ - g.take[1]]
    ELSE g

\* the loop test and lines 27-29 or 41-43: the next pair is yielded, or the loop ends
\* and the generator returns (StopIteration)
Yield(g) ==
    IF TakeGoesOn(g.lots, g.need)
    THEN [g EXCEPT !.pc = "yielded",
                   !.take = Some(TakeQty(g.lots[PickLot(strategy, g.lots)], g.need)),
                   !.out = Append(@, <<TakeQty(g.lots[PickLot(strategy, g.lots)], g.need),
                                       g.lots[PickLot(strategy, g.lots)]>>)]
    ELSE [g EXCEPT !.pc = "done"]

\* next(gen)
GenNext ==
    /\ gen.pc \in {"created", "yielded"}
    /\ gen' = Yield(Resumed(gen))
    /\ UNCHANGED <<strategy, state, realized_total, pending, call, ops>>

NextTake == GenNext

SpecTake == InitTake /\ [][NextTake]_vars

(***************************************************************************)
(* Claims about take (checked under SpecTake).                             *)
(***************************************************************************)
Max(a, b) == IF a >= b THEN a ELSE b

\* the lot of the queue opened at t, as a set (empty when it is not in the queue)
LotAt(lots, t) == {lots[i] : i \in {j \in 1..Len(lots) : lots[j].ts_open = t}}

\* what C4 says of a generator run to its end, apart from the sum of the taken quantities
C4_RunToEnd ==
    /\ LotQty(gen.lots) = LotQty(gen.lots0) - Taken(gen.out)
    /\ \A j \in 1..Len(gen.out) :
          /\ gen.out[j][2] \in LotAt(gen.lots0, gen.out[j][2].ts_open)
          /\ LotAt(gen.lots, gen.out[j][2].ts_open) =
                IF gen.out[j][2].qty = gen.out[j][1] THEN {}
                ELSE {[gen.out[j][2] EXCEPT !.qty = @ - gen.out[j][1]]}
    /\ \A i \in 1..Len(gen.lots) : gen.lots[i].qty > 0
    /\ gen.need0 > LotQty(gen.lots0) => gen.lots = <<>> /\ Taken(gen.out) = LotQty(gen.lots0)

\* C4 as stated: FIFO or LIFO, the generator run to its end has yielded taken
\* quantities that sum to min(need, total quantity of the queue); the queue's total
\* has dropped by that sum, every matched lot is decremented by its taken amount, no
\* lot of quantity zero remains, and an exhausted queue just ends the iteration.
C4_AsStated ==
    gen.pc = "done" =>
        /\ Taken(gen.out) = Min(gen.need0, LotQty(gen.lots0))
        /\ C4_RunToEnd

\* C4, amended: the same, the taken quantities summing to min(max(need, 0), total):
\* a negative need takes nothing.
C4_TakeSum ==
    /\ gen.pc = "done" =>
        /\ Taken(gen.out) = Min(Max(gen.need0, 0), LotQty(gen.lots0))
        /\ C4_RunToEnd
    /\ gen.pc = "yielded" => gen.lots # <<>>

\* C4's case: two lots matched, the second one in part only.
C4_Witness ==
    /\ gen.pc = "done"
    /\ Len(gen.out) = 2
    /\ gen.out[2][1] < gen.out[2][2].qty
    /\ Len(gen.lots) = Len(gen.lots0) - 1

\* C5: under FIFO the j-th pair yielded is the j-th lot of the queue as it was handed
\* over, every pair but the last takes its whole lot, the queue is at any time what
\* follows the lots taken whole, with only its head possibly reduced; lots [5,5,5]
\* opened at 1 < 2 < 3 and a need of 7 leave lot(2) with 3 at the head and lot(3) with 5.
C5_FifoFromHead ==
    (strategy = "FIFO" /\ gen.pc \in {"created", "yielded", "done"}) =>
        /\ \A j \in 1..Len(gen.out) :
              /\ gen.out[j][2] = gen.lots0[j]
              /\ j < Len(gen.out) => gen.out[j][1] = gen.lots0[j].qty
        /\ \E k \in 0..Len(gen.lots0) :
              /\ Len(gen.lots) = Len(gen.lots0) - k
              /\ \A i \in 1..Len(gen.lots) :
                    /\ gen.lots[i].price = gen.lots0[k + i].price
                    /\ gen.lots[i].ts_open = gen.lots0[k + i].ts_open
                    /\ gen.lots[i].qty <= gen.lots0[k + i].qty
                    /\ i > 1 => gen.lots[i].qty = gen.lots0[k + i].qty
        /\ (/\ gen.pc = "done"
            /\ gen.lots0 = <<Lot(5, 100, 1), Lot(5, 100, 2), Lot(5, 100, 3)>>
            /\ gen.need0 = 7)
           => gen.lots = <<Lot(3, 100, 2), Lot(5, 100, 3)>>

C5_Witness ==
    /\ strategy = "FIFO"
    /\ gen.pc = "done"
    /\ gen.lots0 = <<Lot(5, 100, 1), Lot(5, 100, 2), Lot(5, 100, 3)>>
    /\ gen.need0 = 7
    /\ gen.out = <<<<5, Lot(5, 100, 1)>>, <<2, Lot(5, 100, 2)>>>>

\* C6: under LIFO the j-th pair yielded is the j-th lot from the tail, every pair but
\* the last takes its whole lot, the queue is at any time what precedes the lots taken
\* whole, with only its tail possibly reduced; lots [5,5,5] opened at 1 < 2 < 3 and a
\* need of 7 leave lot(1) with 5 and lot(2) with 3.
C6_LifoFromTail ==
    (strategy = "LIFO" /\ gen.pc \in {"created", "yielded", "done"}) =>
        /\ \A j \in 1..Len(gen.out) :
              /\ gen.out[j][2] = gen.lots0[Len(gen.lots0) + 1 - j]
              /\ j < Len(gen.out) => gen.out[j][1] = gen.lots0[Len(gen.lots0) + 1 - j].qty
        /\ Len(gen.lots) <= Len(gen.lots0)
        /\ \A i \in 1..Len(gen.lots) :
              /\ gen.lots[i].price = gen.lots0[i].price
              /\ gen.lots[i].ts_open = gen.lots0[i].ts_open
              /\ gen.lots[i].qty <= gen.lots0[i].qty
              /\ i < Len(gen.lots) => gen.lots[i].qty = gen.lots0[i].qty
        /\ (/\ gen.pc = "done"
            /\ gen.lots0 = <<Lot(5, 100, 1), Lot(5, 100, 2), Lot(5, 100, 3)>>
            /\ gen.need0 = 7)
           => gen.lots = <<Lot(5, 100, 1), Lot(3, 100, 2)>>

C6_Witness ==
    /\ strategy = "LIFO"
    /\ gen.pc = "done"
    /\ gen.lots0 = <<Lot(5, 100, 1), Lot(5, 100, 2), Lot(5, 100, 3)>>
    /\ gen.need0 = 7
    /\ gen.out = <<<<5, Lot(5, 100, 3)>>, <<2, Lot(5, 100, 2)>>>>

(***************************************************************************)
(* Claims about the engine (checked under Spec unless said otherwise).     *)
(***************************************************************************)
\* the dicts the last call went through: the one each call it made left, and the last
Dicts ==
    {state} \cup (IF call.op = "process_fills"
                  THEN {call.log[i].after : i \in 1..Len(call.log)} ELSE {})

\* C1: whatever calls were made, no symbol has long lots and short lots at once, neither
\* when a call has returned nor between the calls process_fills makes.
C1_OneSideOpen ==
    \A d \in Dicts : \A sym \in DOMAIN d :
        d[sym].long_lots = <<>> \/ d[sym].short_lots = <<>>

\* C1's case: a SELL larger than the long position has emptied the long queue and
\* opened a short lot for the rest.
C1_Witness ==
    /\ call.op = "apply_fill"
    /\ call.f.side = SELL
    /\ state[call.f.product].rpnl_hist # <<>>
    /\ state[call.f.product].long_lots = <<>>
    /\ Len(state[call.f.product].short_lots) = 1
    /\ state[call.f.product].short_lots[1].qty < call.f.qty

\* C7: every lot in a queue has a quantity above zero, when a call has returned and
\* between the calls process_fills makes.
C7_LotsPositive ==
    \A d \in Dicts : \A sym \in DOMAIN d :
        /\ \A i \in 1..Len(d[sym].long_lots) : d[sym].long_lots[i].qty > 0
        /\ \A i \in 1..Len(d[sym].short_lots) : d[sym].short_lots[i].qty > 0

\* C7's case: a fill has offset a whole lot and nothing more, and the lot is gone.
C7_Witness ==
    /\ call.op = "apply_fill"
    /\ call.f.qty = 50
    /\ state[call.f.product].rpnl_hist # <<>>
    /\ state[call.f.product].long_lots = <<>>
    /\ state[call.f.product].short_lots = <<>>

\* what set_initial_position(symbol, qty, avg_price, t) leaves of the symbol's lots
SeededAs(st, qty, avg_price, t) ==
    /\ st.long_lots = IF qty > 0 THEN <<Lot(qty, avg_price, t)>> ELSE <<>>
    /\ st.short_lots = IF qty < 0 THEN <<Lot(-qty, avg_price, t)>> ELSE <<>>

\* C10: set_initial_position with a timestamp leaves the symbol with one long lot
\* {qty, avg_price, timestamp} if qty > 0, one short lot {|qty|, avg_price, timestamp} if
\* qty < 0 and no lot if qty = 0, whatever lots it had (called directly, or by
\* process_fills for a pending position).
C10_SeedReplacesLots ==
    /\ (call.op = "set_initial_position" /\ call.timestamp # None) =>
          SeededAs(state[call.symbol], call.qty, call.avg_price, call.timestamp[1])
    /\ call.op = "process_fills" =>
          \A i \in 1..Len(call.log) :
              call.log[i].op = "set_initial_position" =>
                  SeededAs(call.log[i].after[call.log[i].symbol], call.log[i].qty,
                           call.log[i].avg_price, call.log[i].timestamp[1])

\* C10's case: two fills had opened two lots of the symbol (nothing was realized) when
\* it was given a short initial position.
C10_Witness ==
    /\ call.op = "set_initial_position"
    /\ call.timestamp # None
    /\ call.qty < 0
    /\ Len(state[call.symbol].upnl_hist) = 2
    /\ state[call.symbol].rpnl_hist = <<>>
    /\ Len(state[call.symbol].short_lots) = 1

\* C8: process_fills of a list that is not empty first applies every pending initial
\* position, in the order registered, at a time one minute before the earliest fill of
\* the list, so before every fill of it, and only then applies the fills; nothing is
\* left pending.
C8_PendingBeforeFills ==
    [][(call'.op = "process_fills" /\ call'.fills # <<>>) =>
          /\ Len(call'.log) = Len(pending) + Len(call'.fills)
          /\ pending' = <<>>
          /\ \A i \in 1..Len(call'.log) :
                IF i <= Len(pending)
                THEN /\ call'.log[i].op = "set_initial_position"
                     /\ call'.log[i].symbol = pending[i].symbol
                     /\ call'.log[i].qty = pending[i].qty
                     /\ call'.log[i].avg_price = pending[i].avg_price
                     /\ \E j \in 1..Len(call'.fills) :
                           call'.log[i].timestamp = Some(call'.fills[j].ts - 1)
                     /\ \A j \in 1..Len(call'.fills) :
                           call'.log[i].timestamp[1] < call'.fills[j].ts
                     /\ \A lot \in LotAt(call'.log[i].after[pending[i].symbol].long_lots
                                            \o call'.log[i].after[pending[i].symbol].short_lots,
                                         call'.log[i].timestamp[1]) :
                           lot.qty = Abs(pending[i].qty)
                     /\ pending[i].qty # 0 =>
                           Len(call'.log[i].after[pending[i].symbol].long_lots
                               \o call'.log[i].after[pending[i].symbol].short_lots) = 1
                           /\ LotAt(call'.log[i].after[pending[i].symbol].long_lots
                                       \o call'.log[i].after[pending[i].symbol].short_lots,
                                    call'.log[i].timestamp[1]) # {}
                ELSE call'.log[i].op = "apply_fill"]_vars

\* C8's case: a position was pending and the list's first fill is not its earliest.
C8_Witness ==
    /\ call.op = "process_fills"
    /\ Len(call.fills) = 2
    /\ call.fills[1].ts > call.fills[2].ts
    /\ call.log[1].op = "set_initial_position"
    /\ call.log[1].qty # 0
    /\ call.log[1].timestamp = Some(call.fills[2].ts - 1)

\* Scenario B: a new engine, the position Y -50 at 20 registered without a timestamp,
\* then process_fills of the one fill BUY 50 at 18 at minute 12.
ScenarioB ==
    /\ ops = 2
    /\ call.op = "process_fills"
    /\ call.fills = <<Fill(12, "Y", BUY, 18, 50)>>
    /\ Len(call.log) = 2
    /\ call.log[1].op = "set_initial_position"
    /\ call.log[1].symbol = "Y"
    /\ call.log[1].qty = -50
    /\ call.log[1].avg_price = 20

\* what Scenario B comes to, apart from the realized PnL
ScenarioB_Flat ==
    /\ call.log[1].after["Y"].short_lots = <<Lot(50, 20, 11)>>
    /\ call.log[1].after["Y"].long_lots = <<>>
    /\ state["Y"].long_lots = <<>>
    /\ state["Y"].short_lots = <<>>
    /\ call.states["Y"].long_lots = <<>> /\ call.states["Y"].short_lots = <<>>

\* C9 as stated: in Scenario B the seeded short lot is opened at 11, the fill offsets it
\* all, Y ends with no lot, and the realized PnL is 40.
C9_AsStated ==
    ScenarioB =>
        /\ ScenarioB_Flat
        /\ state["Y"].realized_pnl = 40
        /\ call.df[1].realized_symbol = 40

\* C9, amended: the same, the realized PnL being (20 - 18) * 50 = 100.
C9_ScenarioB ==
    ScenarioB =>
        /\ ScenarioB_Flat
        /\ state["Y"].realized_pnl = 100
        /\ state["Y"].rpnl_hist = <<100>>
        /\ realized_total = 100
        /\ call.df[1].realized_symbol = 100
        /\ call.states["Y"].realized_total = 100

C9_Witness == ScenarioB /\ state["Y"].realized_pnl = 100

(***************************************************************************)
(* Claims about matching and the time series (checked under SpecA).        *)
(***************************************************************************)
\* the realized_symbol values of the rows of a symbol, added up
RealizedOfRows(df, sym) ==
    SumSeq([i \in 1..Len(df) |-> IF df[i].symbol = sym THEN df[i].realized_symbol ELSE 0])

\* C2: when nothing was realized before process_fills is called, the realized_symbol
\* values of a symbol's rows add up to the symbol's realized_total in the snapshot
\* returned.
C2_RowsSumToRealized ==
    [][(/\ call'.op = "process_fills"
        /\ realized_total = 0
        /\ \A sym \in DOMAIN state : state[sym].rpnl_hist = <<>>) =>
          \A sym \in DOMAIN call'.states :
              RealizedOfRows(call'.df, sym) = call'.states[sym].realized_total]_vars

\* the state of a symbol before a call, as _get would make it
Before(sym) == IF sym \in DOMAIN state THEN state[sym] ELSE SymbolState

\* of lot i of the offset queue old, what is left in the queue new after the fill: the
\* lots that stay are the last ones under FIFO and the first ones under LIFO
LeftOf(old, new, i) ==
    IF strategy = "FIFO"
    THEN (IF i > Len(old) - Len(new) THEN new[i - (Len(old) - Len(new))].qty ELSE 0)
    ELSE (IF i <= Len(new) THEN new[i].qty ELSE 0)

\* the lots of old the fill took from, in the order the strategy matches them
RECURSIVE Reverse(_)
Reverse(s) == IF s = <<>> THEN <<>> ELSE Reverse(Tail(s)) \o <<s[1]>>
Touched(old, new) ==
    LET asc == SelectSeq([i \in 1..Len(old) |-> i],
                         LAMBDA i : old[i].qty - LeftOf(old, new, i) > 0)
    IN IF strategy = "FIFO" THEN asc ELSE Reverse(asc)

\* the realized delta the claim gives for `taken` of a lot
Delta(f, lot, taken) ==
    IF f.side = SELL THEN (f.price - lot.price) * taken ELSE (lot.price - f.price) * taken

\* apply_fill(f) as C3 has it: old and other are the queue f offsets and the queue it
\* opens into before the call, new and other2 the same queues after it
FillEffect(f, old, other, new, other2) ==
    LET sym == f.product
        hit == Touched(old, new)
        deltas == [j \in 1..Len(hit) |->
                      Delta(f, old[hit[j]], old[hit[j]].qty - LeftOf(old, new, hit[j]))]
    IN /\ Len(new) <= Len(old)
       /\ LotQty(old) - LotQty(new) = Min(f.qty, LotQty(old))
       /\ state'[sym].realized_pnl = Before(sym).realized_pnl + SumSeq(deltas)
       /\ realized_total' = realized_total + SumSeq(deltas)
       /\ state'[sym].rpnl_hist = Before(sym).rpnl_hist \o deltas
       /\ f.qty > LotQty(old) => new = <<>>
       /\ other2 = other \o (IF f.qty > LotQty(old)
                             THEN <<Lot(f.qty - LotQty(old), f.price, f.ts)>> ELSE <<>>)

\* Scenario A: BUY 10 at 100, SELL 4 at 110, SELL 10 at 90 of X, and X after each
A1 == Fill(11, "X", BUY, 100, 10)
A2 == Fill(12, "X", SELL, 110, 4)
A3 == Fill(13, "X", SELL, 90, 10)
XAfter(d, rt, long, short, hist) ==
    /\ "X" \in DOMAIN d
    /\ d["X"].long_lots = long
    /\ d["X"].short_lots = short
    /\ d["X"].rpnl_hist = hist
    /\ d["X"].realized_pnl = SumSeq(hist)
    /\ rt = SumSeq(hist)
ScenarioA ==
    /\ (state = <<>> /\ call'.f = A1) =>
          XAfter(state', realized_total', <<Lot(10, 100, 11)>>, <<>>, <<>>)
    /\ (XAfter(state, realized_total, <<Lot(10, 100, 11)>>, <<>>, <<>>) /\ call'.f = A2) =>
          XAfter(state', realized_total', <<Lot(6, 100, 11)>>, <<>>, <<40>>)
    /\ (XAfter(state, realized_total, <<Lot(6, 100, 11)>>, <<>>, <<40>>) /\ call'.f = A3) =>
          XAfter(state', realized_total', <<>>, <<Lot(4, 90, 13)>>, <<40, -60>>)

\* C3: apply_fill of a SELL of q > 0 at p takes from the long lots: each (taken, lot)
\* matched adds (p - lot.price) * taken to the symbol's realized total, to the
\* portfolio's and to the symbol's realized history, and what is left of q once the long
\* queue is empty opens one short lot of that quantity at p and the fill's time; a BUY
\* does the same to the short lots with (lot.price - p) * taken and opens a long lot.
\* From flat, BUY 10 at 100, SELL 4 at 110, SELL 10 at 90 ends with the one short lot
\* 4 at 90 and -20 realized.
C3_FillMatching ==
    [][(call'.op = "apply_fill" /\ call'.f.qty > 0) =>
          /\ IF call'.f.side = SELL
             THEN FillEffect(call'.f, Before(call'.f.product).long_lots,
                             Before(call'.f.product).short_lots,
                             state'[call'.f.product].long_lots,
                             state'[call'.f.product].short_lots)
             ELSE FillEffect(call'.f, Before(call'.f.product).short_lots,
                             Before(call'.f.product).long_lots,
                             state'[call'.f.product].short_lots,
                             state'[call'.f.product].long_lots)
          /\ ScenarioA]_vars

\* C3's case: Scenario A has been run to its end, its last fill by apply_fill.
C3_Witness ==
    /\ call.op = "apply_fill"
    /\ call.f = A3
    /\ XAfter(state, realized_total, <<>>, <<Lot(4, 90, 13)>>, <<40, -60>>)
    /\ state["X"].realized_pnl = -20

\* a symbol that was flat and has had n fills, all of them BUYs, as C11 has it: nothing
\* realized, no short lot, and the n long lots the fills opened
BoughtOnly(st, n) ==
    /\ st.realized_pnl = 0
    /\ st.rpnl_hist = <<>>
    /\ st.short_lots = <<>>
    /\ Len(st.long_lots) = n
    /\ Len(st.upnl_hist) = n

\* the fills of a list are BUYs of one symbol
AllBuys(fills, sym) ==
    \A i \in 1..Len(fills) : fills[i].side = BUY /\ fills[i].product = sym

\* C11: a symbol that started flat and has had only BUY fills (no initial position
\* either: SpecA) has, after one more BUY or a list of BUYs, nothing realized, no short
\* lot, and one more long lot for each fill, the last one the fill's quantity at the
\* fill's price and time.
C11_BuysOnlyOpenLongs ==
    [][\A sym \in {"X"} :
          BoughtOnly(Before(sym), Len(Before(sym).upnl_hist)) =>
             /\ (call'.op = "apply_fill" /\ call'.f.side = BUY /\ call'.f.product = sym) =>
                   /\ BoughtOnly(state'[sym], Len(Before(sym).upnl_hist) + 1)
                   /\ state'[sym].long_lots =
                         Before(sym).long_lots
                            \o <<Lot(call'.f.qty, call'.f.price, call'.f.ts)>>
                   /\ call'.ret.realized_pnl = 0
             /\ (call'.op = "process_fills" /\ AllBuys(call'.fills, sym)) =>
                   \A i \in 1..Len(call'.log) :
                       /\ BoughtOnly(call'.log[i].after[sym],
                                     Len(Before(sym).upnl_hist) + i)
                       /\ call'.df[i].realized_total_symbol = 0
                       /\ call'.log[i].after[sym].long_lots[Len(Before(sym).upnl_hist) + i]
                             = Lot(call'.log[i].f.qty, call'.log[i].f.price,
                                   call'.log[i].f.ts)]_vars

\* C11's case: three BUYs at different prices have been applied to X, the last by
\* apply_fill.
C11_Witness ==
    /\ call.op = "apply_fill"
    /\ call.f.side = BUY
    /\ BoughtOnly(state["X"], 3)
    /\ state["X"].long_lots[1].price # state["X"].long_lots[3].price

\* C12: process_fills of an empty list returns an empty time series and leaves the
\* engine's symbols (lots, last price, realized total, histories) and the portfolio's
\* realized total as they were; the snapshot returned shows those same symbols.
C12_NoFillsNoChange ==
    [][(call'.op = "process_fills" /\ call'.fills = <<>>) =>
          /\ call'.df = <<>>
          /\ call'.log = <<>>
          /\ DOMAIN state' = DOMAIN state
          /\ \A sym \in DOMAIN state :
                /\ state'[sym].long_lots = state[sym].long_lots
                /\ state'[sym].short_lots = state[sym].short_lots
                /\ state'[sym].last_price = state[sym].last_price
                /\ state'[sym].realized_pnl = state[sym].realized_pnl
                /\ state'[sym].rpnl_hist = state[sym].rpnl_hist
                /\ state'[sym].upnl_hist = state[sym].upnl_hist
          /\ realized_total' = realized_total
          /\ DOMAIN call'.states = DOMAIN state
          /\ \A sym \in DOMAIN state :
                /\ call'.states[sym].realized_total = state[sym].realized_pnl
                /\ call'.states[sym].last_price = state[sym].last_price
                /\ Len(call'.states[sym].long_lots) = Len(state[sym].long_lots)
                /\ Len(call'.states[sym].short_lots) = Len(state[sym].short_lots)]_vars

\* C12's case: process_fills([]) on an engine with a seeded symbol that holds a lot,
\* and another position still pending.
C12_Witness ==
    /\ call.op = "process_fills"
    /\ call.fills = <<>>
    /\ pending # <<>>
    /\ \E sym \in DOMAIN state :
          state[sym].short_lots # <<>> /\ state[sym].upnl_hist = <<>>

(***************************************************************************)
(* io.py: read_orders_from_csv and orders_to_fills.  A file is the         *)
(* sequence of its rows; currentTime counts nanoseconds.                   *)
(***************************************************************************)
MaxEvents == 4       \* rows of the order whose action sequences are enumerated

\* types.py: the values of the enums Side and Action
ActionValues == {"sent", "placed", "filled", "cancelling", "cancelled"}

\* Side(x), Action(x): the call of an Enum raises ValueError for anything but a value
SideRaises(x) == x \notin Sides
ActionRaises(x) == x \notin ActionValues

_VALID_SEQUENCES ==
    {<<"sent", "placed", "filled">>,
     <<"sent", "placed", "cancelling", "cancelled">>,
     <<"placed", "filled">>,
     <<"sent", "filled">>}

\* str.lower() and str.upper() on the strings of the model's files
lower(x) ==
    CASE x = "SELL" -> "sell"
      [] x = "Placed" -> "placed"
      [] x = "FILLED" -> "filled"
      [] OTHER -> x
upper(x) ==
    CASE x = "x" -> "X"
      [] x = "y" -> "Y"
      [] OTHER -> x

\* _to_dec_or_none on the cells of the model's files: "" and "nan" are read as None, a
\* numeral as its Decimal, anything else Decimal() rejects as None
_to_dec_or_none(x) ==
    CASE x = "" -> None
      [] x = "nan" -> None
      [] x = "100" -> Some(100)
      [] x = "5" -> Some(5)
      [] OTHER -> None

\* Timestamp.to_pydatetime(): a datetime holds microseconds, the nanoseconds are dropped
NsPerUs == 1000
to_pydatetime(t) == t - (t % NsPerUs)

ActionEvent(ts, action, trade_px, trade_amt) ==
    [ts |-> ts, action |-> action, trade_px |-> trade_px, trade_amt |-> trade_amt]

Order(order_id, product, side, events) ==
    [order_id |-> order_id, product |-> product, side |-> side, events |-> events]

\* lines 39-60: the frame as read and normalised
ReadCsv(rows) ==
    [i \in 1..Len(rows) |->
        [rows[i] EXCEPT !.action = lower(@), !.orderSide = lower(@),
                        !.orderProduct = upper(@),
                        !.tradePx = _to_dec_or_none(@),
                        !.tradeAmt = _to_dec_or_none(@)]]

\* df.groupby("orderId", sort=False): the order ids in the order they first appear, and
\* the rows of one of them in the order of the file
RECURSIVE GroupIds(_, _)
GroupIds(df, seen) ==
    IF df = <<>> THEN seen
    ELSE GroupIds(Tail(df),
                  IF \E i \in 1..Len(seen) : seen[i] = df[1].orderId
                  THEN seen ELSE Append(seen, df[1].orderId))
Group(df, order_id) == SelectSeq(df, LAMBDA r : r.orderId = order_id)

\* grp.sort_values("currentTime", kind="mergesort"): stable
RECURSIVE InsertByTime(_, _)
InsertByTime(sorted, r) ==
    IF sorted = <<>> THEN <<r>>
    ELSE IF sorted[Len(sorted)].currentTime <= r.currentTime THEN Append(sorted, r)
    ELSE Append(InsertByTime(SubSeq(sorted, 1, Len(sorted) - 1), r), sorted[Len(sorted)])
RECURSIVE sort_values(_)
sort_values(grp) ==
    IF grp = <<>> THEN <<>>
    ELSE InsertByTime(sort_values(SubSeq(grp, 1, Len(grp) - 1)), grp[Len(grp)])

\* lines 78-86 and 89
Events(grp) ==
    [i \in 1..Len(grp) |->
        ActionEvent(to_pydatetime(grp[i].currentTime), grp[i].action,
                    grp[i].tradePx, grp[i].tradeAmt)]
ActionSeq(evs) == [i \in 1..Len(evs) |-> evs[i].action]

\* Mutant of Reconstructed: the order is kept when its first events are a valid sequence.
Reconstructed_Prefix(order_id, grp) ==
    IF SideRaises(grp[1].orderSide) \/ \E i \in 1..Len(grp) : ActionRaises(grp[i].action)
    THEN [kind |-> "raise"]
    ELSE IF \E n \in 1..Len(grp) : ActionSeq(Events(SubSeq(grp, 1, n))) \in _VALID_SEQUENCES
    THEN [kind |-> "order",
          order |-> Order(order_id, grp[1].orderProduct, grp[1].orderSide, Events(grp))]
    ELSE [kind |-> "skip"]

\* lines 68-96, one turn of the loop, grp sorted: ValueError is raised by Side() or
\* Action(), or the order is skipped, or it is appended
Reconstructed(order_id, grp) ==
    IF SideRaises(grp[1].orderSide) \/ \E i \in 1..Len(grp) : ActionRaises(grp[i].action)
    THEN [kind |-> "raise"]
    ELSE IF ActionSeq(Events(grp)) \notin _VALID_SEQUENCES
    THEN [kind |-> "skip"]
    ELSE [kind |-> "order",
          order |-> Order(order_id, grp[1].orderProduct, grp[1].orderSide, Events(grp))]

\* lines 62-98: the loop over the groups; out is what the call has come to so far
Collected(out, r) ==
    CASE r.kind = "raise" -> [raised |-> TRUE, orders |-> <<>>]
      [] r.kind = "skip" -> out
      [] r.kind = "order" -> [out EXCEPT !.orders = Append(@, r.order)]
RECURSIVE ReadGroups(_, _, _)
ReadGroups(df, ids, out) ==
    IF ids = <<>> \/ out.raised THEN out
    ELSE ReadGroups(df, Tail(ids),
                    Collected(out, Reconstructed(ids[1], sort_values(Group(df, ids[1])))))

\* read_orders_from_csv: the list returned, or raised = TRUE for the ValueError
ReadFrame(df) == ReadGroups(df, GroupIds(df, <<>>), [raised |-> FALSE, orders |-> <<>>])
read_orders_from_csv(rows) == ReadFrame(ReadCsv(rows))

\* lines 104-114: the fills of one order's events
IsExecution(ev) == ev.action = "filled" /\ ev.trade_px # None /\ ev.trade_amt # None
RECURSIVE FillsOf(_, _)
FillsOf(o, evs) ==
    IF evs = <<>> THEN <<>>
    ELSE (IF IsExecution(evs[1])
          THEN <<Fill(evs[1].ts, o.product, o.side, evs[1].trade_px[1], evs[1].trade_amt[1])>>
          ELSE <<>>) \o FillsOf(o, Tail(evs))

\* lines 102-114: the loop over the orders
RECURSIVE Extracted(_)
Extracted(orders) ==
    IF orders = <<>> THEN <<>>
    ELSE FillsOf(orders[1], orders[1].events) \o Extracted(Tail(orders))

\* Mutant of orders_to_fills: the fills are returned as extracted, not sorted.
orders_to_fills_Unsorted(orders) == Extracted(orders)

\* orders_to_fills; fills.sort(key=lambda f: f.ts) is stable
orders_to_fills(orders) == SortByTs(Extracted(orders))

(***************************************************************************)
(* The files and the lists of orders the two functions are given.          *)
(***************************************************************************)
MaxOrderEvents == 3  \* events of the order whose events are enumerated

RawRow(t, action, order_id, product, side) ==
    [currentTime |-> t, action |-> action, orderId |-> order_id,
     orderProduct |-> product, orderSide |-> side,
     tradePx |-> IF lower(action) = "filled" THEN "100" ELSE "",
     tradeAmt |-> IF lower(action) = "filled" THEN "5" ELSE ""]

\* The rows of order A: any sequence of at most MaxEvents actions, one of them unknown
\* to the enum, logged a microsecond apart, or all at the same time, or the first two
\* out of order by a nanosecond.
RawActions == ActionValues \cup {"rejected"}
TimeOf(pattern, i) ==
    CASE pattern = "apart" -> NsPerUs * i
      [] pattern = "tied" -> NsPerUs
      [] pattern = "swapped" -> IF i = 1 THEN NsPerUs + 1
                                ELSE IF i = 2 THEN NsPerUs ELSE NsPerUs * i
RowsA(a, pattern) ==
    [i \in 1..Len(a) |-> RawRow(TimeOf(pattern, i), a[i], "A", "x", "buy")]
TimePatterns == {"apart", "tied", "swapped"}

\* The rows of order B: none, a valid sequence, or an invalid one.
RowsB ==
    {<<>>,
     <<RawRow(1500, "Placed", "B", "y", "SELL"), RawRow(2500, "FILLED", "B", "y", "SELL")>>,
     <<RawRow(1500, "filled", "B", "y", "sell"), RawRow(2500, "sent", "B", "y", "sell")>>}

\* A file: the rows of A, and those of B before them or after them.
File(a, b, first) == IF first = "A" THEN a \o b ELSE b \o a

\* The events of an order handed to orders_to_fills: filled with a price and a quantity,
\* filled without one of them, or not filled, at one of two times.
EventsGiven ==
    {ActionEvent(t, k[1], k[2], k[3]) :
        t \in {1000, 2000},
        k \in {<<"filled", Some(100), Some(5)>>, <<"filled", None, Some(5)>>,
               <<"filled", Some(100), None>>, <<"placed", Some(100), Some(5)>>}}
EventsB ==
    {<<>>, <<ActionEvent(1000, "filled", Some(90), Some(7))>>,
     <<ActionEvent(2000, "filled", Some(90), Some(7))>>,
     <<ActionEvent(1000, "filled", None, Some(7))>>}

\* A list of orders: none, order A alone, or A and B in either order.
OrderList(evsA, evsB, shape) ==
    CASE shape = "none" -> <<>>
      [] shape = "A" -> <<Order("A", "X", BUY, evsA)>>
      [] shape = "AB" -> <<Order("A", "X", BUY, evsA), Order("B", "Y", SELL, evsB)>>
      [] shape = "BA" -> <<Order("B", "Y", SELL, evsB), Order("A", "X", BUY, evsA)>>

InitIO ==
    /\ strategy = "FIFO"
    /\ state = <<>>
    /\ realized_total = 0
    /\ pending = <<>>
    /\ ops = 0
    /\ gen = NoGen
    /\ \/ \E n \in 0..MaxEvents : \E a \in [1..n -> RawActions] :
             \E pattern \in TimePatterns, b \in RowsB, first \in {"A", "B"} :
                call = [op |-> "csv", rows |-> File(RowsA(a, pattern), b, first)]
       \/ \E n \in 0..MaxOrderEvents : \E evsA \in [1..n -> EventsGiven] :
             \E evsB \in EventsB, shape \in {"none", "A", "AB", "BA"} :
                call = [op |-> "orders", orders |-> OrderList(evsA, evsB, shape)]

\* read_orders_from_csv(path), the file at path holding call.rows
OrdersRead(rows, out) ==
    call' = [op |-> "read_orders_from_csv", rows |-> rows,
             raised |-> out.raised, orders |-> out.orders]
ReadOrdersFromCsv ==
    /\ call.op = "csv"
    /\ OrdersRead(call.rows, read_orders_from_csv(call.rows))
    /\ UNCHANGED <<strategy, state, realized_total, pending, ops, gen>>

\* orders_to_fills(orders), of the orders given or of the orders just read
OrdersToFills ==
    /\ call.op = "orders" \/ (call.op = "read_orders_from_csv" /\ ~call.raised)
    /\ call' = [op |-> "orders_to_fills", orders |-> call.orders,
                rows |-> IF call.op = "orders" THEN None ELSE Some(call.rows),
                fills |-> orders_to_fills(call.orders)]
    /\ UNCHANGED <<strategy, state, realized_total, pending, ops, gen>>

NextIO == ReadOrdersFromCsv \/ OrdersToFills

SpecIO == InitIO /\ [][NextIO]_vars

(***************************************************************************)
(* Claims about io.py (checked under SpecIO).                              *)
(***************************************************************************)
\* the order ids of a file, and the rows of a file but those of one order id
OrderIds(rows) == {rows[i].orderId : i \in 1..Len(rows)}
Without(rows, order_id) == SelectSeq(rows, LAMBDA r : r.orderId # order_id)

\* the action kinds of the rows of an order id, by ascending time, rows of equal time
\* in the order of the file: row i of the order's rows comes at place PlaceOf(i)
PlaceOf(grp, i) ==
    1 + Cardinality({j \in 1..Len(grp) :
                        \/ grp[j].currentTime < grp[i].currentTime
                        \/ grp[j].currentTime = grp[i].currentTime /\ j < i})
KindsInTime(grp) ==
    [n \in 1..Len(grp) |-> lower(grp[CHOOSE i \in 1..Len(grp) : PlaceOf(grp, i) = n].action)]
Whitelisted(rows, order_id) ==
    KindsInTime(SelectSeq(rows, LAMBDA r : r.orderId = order_id)) \in
        {<<"sent", "placed", "filled">>, <<"sent", "placed", "cancelling", "cancelled">>,
         <<"placed", "filled">>, <<"sent", "filled">>}

\* an Order is emitted for the order id by the call recorded in call
Emitted(order_id) ==
    ~call.raised /\ \E i \in 1..Len(call.orders) : call.orders[i].order_id = order_id

\* what C13 says of the call recorded in call
ReconstructsWhitelisted ==
    /\ \A order_id \in OrderIds(call.rows) :
          Emitted(order_id) <=> Whitelisted(call.rows, order_id)
    /\ \A order_id \in OrderIds(call.rows) :
          ~Whitelisted(call.rows, order_id) =>
              /\ ~call.raised
              /\ ~read_orders_from_csv(Without(call.rows, order_id)).raised
              /\ call.orders = read_orders_from_csv(Without(call.rows, order_id)).orders

\* C13: read_orders_from_csv emits an Order for an order id if and only if the action
\* kinds of its rows, by ascending time and rows of equal time in file order, are one
\* of the four whitelisted sequences; an order with any other sequence is dropped, and
\* the orders returned are those returned for the file without that order's rows.
C13_AsStated ==
    call.op = "read_orders_from_csv" => ReconstructsWhitelisted

\* C13 holds of the files whose actions are all values of the enum Action.
C13_KnownKinds ==
    (/\ call.op = "read_orders_from_csv"
     /\ \A i \in 1..Len(call.rows) : lower(call.rows[i].action) \in ActionValues) =>
        ReconstructsWhitelisted

\* the events of a list of orders that are executions: <<o, e>> is event e of order o
Executions(orders) ==
    {p \in UNION {{<<o, e>> : e \in 1..Len(orders[o].events)} : o \in 1..Len(orders)} :
        /\ orders[p[1]].events[p[2]].action = "filled"
        /\ orders[p[1]].events[p[2]].trade_px # None
        /\ orders[p[1]].events[p[2]].trade_amt # None}

\* p is extracted before q
Earlier(p, q) == p[1] < q[1] \/ (p[1] = q[1] /\ p[2] < q[2])

\* the place of execution p among the fills: after the executions of an earlier time,
\* and after those of its own time that are extracted before it
FillPlace(orders, p) ==
    1 + Cardinality({q \in Executions(orders) :
                        \/ orders[q[1]].events[q[2]].ts < orders[p[1]].events[p[2]].ts
                        \/ /\ orders[q[1]].events[q[2]].ts = orders[p[1]].events[p[2]].ts
                           /\ Earlier(q, p)})

\* C14: orders_to_fills returns one Fill for each 'filled' event that has a price and a
\* quantity, with the order's side and product and the event's time, price and
\* quantity, and no other Fill; the fills are in ascending time, those of equal time in
\* the order they were extracted (order by order, event by event).
C14_FillPerExecution ==
    call.op = "orders_to_fills" =>
        /\ Len(call.fills) = Cardinality(Executions(call.orders))
        /\ \A p \in Executions(call.orders) :
              call.fills[FillPlace(call.orders, p)] =
                  [ts |-> call.orders[p[1]].events[p[2]].ts,
                   product |-> call.orders[p[1]].product,
                   side |-> call.orders[p[1]].side,
                   price |-> call.orders[p[1]].events[p[2]].trade_px[1],
                   qty |-> call.orders[p[1]].events[p[2]].trade_amt[1]]
        /\ \A n \in 1..(Len(call.fills) - 1) : call.fills[n].ts <= call.fills[n + 1].ts

\* C14's case: the first order has an execution at 2000, a 'filled' event without a
\* price and an execution at 1000, in that order, and the second order an execution at
\* 1000: three fills, the two at 1000 first, in the order extracted.
C14_Witness ==
    /\ call.op = "orders_to_fills"
    /\ Len(call.orders) = 2
    /\ Len(call.orders[1].events) = 3
    /\ call.orders[1].events[2].action = "filled"
    /\ call.orders[1].events[2].trade_px = None
    /\ Len(call.fills) = 3
    /\ call.fills[1].ts = 1000 /\ call.fills[1].product = call.orders[1].product
    /\ call.fills[2].ts = 1000 /\ call.fills[2].product = call.orders[2].product
    /\ call.fills[3].ts = 2000 /\ call.fills[3].product = call.orders[1].product

(***************************************************************************)
(* Further claims about the engine.                                        *)
(***************************************************************************)
\* the fills the call recorded in call applied, in the order it applied them, and the
\* dict each application left
FillsApplied == SelectSeq(call.log, LAMBDA e : e.op = "apply_fill")

\* the place at which fill i of a list is applied: after the fills of an earlier time
\* and after those of its own time that come before it in the list
TurnOf(fills, i) ==
    1 + Cardinality({j \in 1..Len(fills) :
                        \/ fills[j].ts < fills[i].ts
                        \/ fills[j].ts = fills[i].ts /\ j < i})

\* C15: process_fills applies the fills by ascending time, those of equal time in the
\* order of the list, whatever the order of the list, and returns one row for each
\* fill, in the order applied: row n has the time and symbol of the n-th fill applied
\* and the symbol's realized total as that fill left it (SpecA).
C15_AppliedInTimeOrder ==
    call.op = "process_fills" =>
        /\ Len(FillsApplied) = Len(call.fills)
        /\ Len(call.df) = Len(call.fills)
        /\ \A i \in 1..Len(call.fills) :
              FillsApplied[TurnOf(call.fills, i)].f = call.fills[i]
        /\ \A n \in 1..Len(call.df) :
              /\ call.df[n].ts = FillsApplied[n].f.ts
              /\ call.df[n].symbol = FillsApplied[n].f.product
              /\ call.df[n].realized_total_symbol =
                    FillsApplied[n].after[FillsApplied[n].f.product].realized_pnl
              /\ n > 1 => call.df[n - 1].ts <= call.df[n].ts

\* C15's case: a list of three fills, the last the earliest, the first two of the same
\* time and different.
C15_Witness ==
    /\ call.op = "process_fills"
    /\ Len(call.fills) = 3
    /\ call.fills[1].ts = call.fills[2].ts
    /\ call.fills[1] # call.fills[2]
    /\ call.fills[3].ts < call.fills[1].ts
    /\ FillsApplied[1].f = call.fills[3]
    /\ FillsApplied[2].f = call.fills[1]
    /\ FillsApplied[3].f = call.fills[2]

\* C16: the realized delta apply_fill returns for a fill is the symbol's cumulative
\* realized PnL after the fill less its value before it, the sum of the deltas of the
\* lots the fill matched, and the gross delta returned is that realized delta plus the
\* symbol's unrealized value after the fill.
C16_DeltaIsRealizedChange ==
    [][call'.op = "apply_fill" =>
          /\ call'.ret.pnl =
                state'[call'.f.product].realized_pnl - Before(call'.f.product).realized_pnl
          /\ call'.ret.pnl =
                SumSeq(SubSeq(state'[call'.f.product].rpnl_hist,
                              Len(Before(call'.f.product).rpnl_hist) + 1,
                              Len(state'[call'.f.product].rpnl_hist)))
          /\ call'.ret.gross =
                (state'[call'.f.product].realized_pnl - Before(call'.f.product).realized_pnl)
                + unrealized(state'[call'.f.product])]_vars

\* v is the mean of the prices of the lots weighted by their quantities, given as the
\* quotient <<dividend, divisor>>, or None when there is no lot
IsWeightedMean(v, lots) ==
    IF lots = <<>> THEN v = None
    ELSE /\ v # None
         /\ v[1][2] # 0
         /\ v[1][1] * SumSeq([i \in 1..Len(lots) |-> lots[i].qty])
               = v[1][2] * SumSeq([i \in 1..Len(lots) |-> lots[i].qty * lots[i].price])

\* C17: the snapshot process_fills returns has, for every symbol of the engine, the
\* symbol's lots, long_qty and short_qty the sums of their quantities, net_qty their
\* difference, and for each side the quantity-weighted mean of its lots' prices, None
\* exactly when the side has no lot.
C17_SnapshotQuantities ==
    call.op = "process_fills" =>
        /\ DOMAIN call.states = DOMAIN state
        /\ \A sym \in DOMAIN state :
              /\ Len(call.states[sym].long_lots) = Len(state[sym].long_lots)
              /\ Len(call.states[sym].short_lots) = Len(state[sym].short_lots)
              /\ call.states[sym].long_qty =
                    SumSeq([i \in 1..Len(state[sym].long_lots) |-> state[sym].long_lots[i].qty])
              /\ call.states[sym].short_qty =
                    SumSeq([i \in 1..Len(state[sym].short_lots) |-> state[sym].short_lots[i].qty])
              /\ call.states[sym].net_qty =
                    call.states[sym].long_qty - call.states[sym].short_qty
              /\ IsWeightedMean(call.states[sym].avg_cost_long, state[sym].long_lots)
              /\ IsWeightedMean(call.states[sym].avg_price_short, state[sym].short_lots)
              /\ (call.states[sym].avg_cost_long = None) <=> (state[sym].long_lots = <<>>)
              /\ (call.states[sym].avg_price_short = None) <=> (state[sym].short_lots = <<>>)

\* C17's case: a symbol with two long lots of different prices and quantities and no
\* short lot, and another symbol in the snapshot.
C17_Witness ==
    /\ call.op = "process_fills"
    /\ Cardinality(DOMAIN call.states) = 2
    /\ \E sym \in DOMAIN state :
          /\ Len(state[sym].long_lots) = 2
          /\ state[sym].long_lots[1].price # state[sym].long_lots[2].price
          /\ state[sym].long_lots[1].qty # state[sym].long_lots[2].qty
          /\ call.states[sym].avg_cost_long # None
          /\ call.states[sym].avg_price_short = None

\* the unrealized value of a symbol as C18 has it: its lots valued at its own last
\* price, zero when it has none
ValueOf(st) ==
    IF st.last_price = None THEN 0
    ELSE SumSeq([i \in 1..Len(st.long_lots) |->
                    (st.last_price[1] - st.long_lots[i].price) * st.long_lots[i].qty])
         + SumSeq([i \in 1..Len(st.short_lots) |->
                    (st.short_lots[i].price - st.last_price[1]) * st.short_lots[i].qty])
ValueOfAll ==
    (IF "X" \in DOMAIN state THEN ValueOf(state["X"]) ELSE 0)
    + (IF "Y" \in DOMAIN state THEN ValueOf(state["Y"]) ELSE 0)

\* C18: the portfolio unrealized total apply_fill returns is the sum, over all the
\* symbols of the engine, of each symbol's lots valued at that symbol's last price (zero
\* for a symbol without one), and the portfolio gross total returned is the portfolio
\* realized total plus that sum (SpecM).
C18_UnrealizedOverAllSymbols ==
    call.op = "apply_fill" =>
        /\ call.ret.up_total = ValueOfAll
        /\ call.ret.up = ValueOf(state[call.f.product])
        /\ call.ret.gross_total = realized_total + ValueOfAll
        /\ call.ret.realized_total = realized_total

\* C18's case: a fill of one symbol, while the other symbol has short lots worth
\* something at its own, different last price.
C18_Witness ==
    /\ call.op = "apply_fill"
    /\ \E other \in DOMAIN state \ {call.f.product} :
          /\ state[other].short_lots # <<>>
          /\ state[other].last_price # None
          /\ state[other].last_price # state[call.f.product].last_price
          /\ ValueOf(state[other]) # 0
          /\ call.ret.up_total = call.ret.up + ValueOf(state[other])

\* the step is set_initial_position(sym, ...) with a timestamp
SeedsNow(sym) ==
    call'.op = "set_initial_position" /\ call'.symbol = sym /\ call'.timestamp # None

\* a symbol without a last price keeps none, and is worth nothing, through every step
\* but a fill of the symbol and a seed of it with avg_price > 0
UnpricedUntilFill(sym) ==
    (/\ Before(sym).last_price = None
     /\ sym \in DOMAIN state'
     /\ ~(call'.op = "apply_fill" /\ call'.f.product = sym)
     /\ ~(SeedsNow(sym) /\ call'.avg_price > 0)) =>
        /\ state'[sym].last_price = None
        /\ ValueOf(state'[sym]) = 0

\* C19 as stated: set_initial_position with avg_price > 0 sets the symbol's last price
\* to avg_price; with avg_price <= 0 the symbol has no last price and an unrealized
\* value of zero after the call, whatever happened to the symbol before, and until a
\* fill of the symbol.
C19_AsStated ==
    [][\A sym \in Symbols :
          /\ (SeedsNow(sym) /\ call'.avg_price > 0) =>
                state'[sym].last_price = Some(call'.avg_price)
          /\ (SeedsNow(sym) /\ call'.avg_price <= 0) =>
                state'[sym].last_price = None /\ ValueOf(state'[sym]) = 0
          /\ UnpricedUntilFill(sym)]_vars

\* C19, amended: with avg_price <= 0 the call leaves the symbol's last price as it was;
\* a symbol that had none has none after the call, and is worth zero, until a fill of
\* the symbol (or a seed with avg_price > 0) gives it one.
C19_SeedMarksPrice ==
    [][\A sym \in Symbols :
          /\ (SeedsNow(sym) /\ call'.avg_price > 0) =>
                state'[sym].last_price = Some(call'.avg_price)
          /\ (SeedsNow(sym) /\ call'.avg_price <= 0) =>
                /\ state'[sym].last_price = Before(sym).last_price
                /\ Before(sym).last_price = None => ValueOf(state'[sym]) = 0
          /\ UnpricedUntilFill(sym)]_vars

\* C19's case: a symbol seeded with a position at avg_price 0 has a lot and no last
\* price, and a fill of the other symbol has been applied since.
C19_Witness ==
    /\ call.op = "apply_fill"
    /\ \E sym \in DOMAIN state \ {call.f.product} :
          /\ state[sym].last_price = None
          /\ state[sym].long_lots \o state[sym].short_lots # <<>>
          /\ state[sym].upnl_hist = <<>>

\* C20: set_initial_position without a timestamp only adds the instruction to the
\* pending ones: no symbol state is created, no symbol's lots, last price, realized PnL
\* or histories change, nor the portfolio realized total, nor what
\* get_current_positions reports; the instruction stays pending through every call but
\* a process_fills of at least one fill.
C20_DeferredSeedOnlyRecorded ==
    [][/\ (call'.op = "set_initial_position" /\ call'.timestamp = None) =>
             /\ DOMAIN state' = DOMAIN state
             /\ \A sym \in DOMAIN state : state'[sym] = state[sym]
             /\ realized_total' = realized_total
             /\ get_current_positions(state') = get_current_positions(state)
             /\ pending' = pending \o <<[symbol |-> call'.symbol, qty |-> call'.qty,
                                         avg_price |-> call'.avg_price,
                                         timestamp |-> None]>>
       /\ ~(call'.op = "process_fills" /\ call'.fills # <<>>) =>
             SubSeq(pending', 1, Len(pending)) = pending]_vars

\* C20's case: a position of a symbol the engine has no state of is registered without
\* a timestamp, while the engine holds lots of another symbol.
C20_Witness ==
    /\ call.op = "set_initial_position"
    /\ call.timestamp = None
    /\ call.qty # 0
    /\ call.symbol \notin DOMAIN state
    /\ \E sym \in DOMAIN state : state[sym].long_lots \o state[sym].short_lots # <<>>
    /\ pending # <<>>

(***************************************************************************)
(* Claims about deferred positions, frames and lots over time.             *)
(***************************************************************************)
\* the initial positions the call of the step applied
SeedsApplied == SelectSeq(call'.log, LAMBDA e : e.op = "set_initial_position")

\* the fill the call of the step applied first
FirstApplied == SelectSeq(call'.log, LAMBDA e : e.op = "apply_fill")[1]

\* a call of process_fills applies the positions pending when it is made, each once
\* and in order, and leaves none pending
ConsumesPending ==
    /\ Len(SeedsApplied) = Len(pending)
    /\ \A i \in 1..Len(pending) :
          /\ SeedsApplied[i].symbol = pending[i].symbol
          /\ SeedsApplied[i].qty = pending[i].qty
          /\ SeedsApplied[i].avg_price = pending[i].avg_price
    /\ pending' = <<>>

\* with nothing pending the first fill of a batch is applied to the engine as the
\* calls before left it
CarriesOver ==
    pending = <<>> =>
        /\ SeedsApplied = <<>>
        /\ FirstApplied.after = apply_fill(strategy, Eng, FirstApplied.f).eng.state

\* C21 as stated: every call of process_fills applies the positions pending when it is
\* made, and leaves none pending, so that no later call applies them again.
C21_AsStated ==
    [][call'.op = "process_fills" =>
          /\ ConsumesPending
          /\ call'.fills # <<>> => CarriesOver]_vars

\* C21, amended: a call of process_fills with at least one fill does so; a call with
\* an empty list applies nothing and leaves the pending positions pending.
C21_PendingConsumedOnce ==
    [][call'.op = "process_fills" =>
          IF call'.fills # <<>>
          THEN ConsumesPending /\ CarriesOver
          ELSE SeedsApplied = <<>> /\ pending' = pending]_vars

\* C21's case: a batch of one fill with nothing pending, on a symbol whose long lot
\* was seeded by an earlier batch (opened a minute before that batch's fill) and
\* which that batch's fill added to.
C21_Witness ==
    /\ call.op = "process_fills"
    /\ Len(call.log) = 1
    /\ call.log[1].op = "apply_fill"
    /\ pending = <<>>
    /\ Len(state[call.fills[1].product].upnl_hist) = 2
    /\ Len(state[call.fills[1].product].long_lots) = 3
    /\ state[call.fills[1].product].long_lots[1].ts_open = call.fills[1].ts - 1

\* from the dict d to the dict e nothing changed but the state of sym
OnlyChanged(d, e, sym) ==
    /\ DOMAIN d \subseteq DOMAIN e
    /\ DOMAIN e \subseteq DOMAIN d \cup {sym}
    /\ \A other \in DOMAIN d \ {sym} : e[other] = d[other]

\* the engine with the state of sym alone, nothing realized and nothing pending
Alone(sym) ==
    [state |-> [x \in DOMAIN state \cap {sym} |-> state[x]],
     realized_total |-> 0, pending |-> <<>>]

\* the dict before the i-th call a call of process_fills made
DictBefore(i) == IF i = 1 THEN state ELSE call'.log[i - 1].after

SurvivorOf(strat, q, i, k) == IF strat = "FIFO" THEN q[i + k] ELSE q[i]

\* the lots of the queue r are lots of the queue q, in q's order and with q's prices and
\* open times, after k lots left q at the end strat takes from; only the lot now at that
\* end may have lost quantity, and need, or all there was, is what the queue lost
Survive(strat, q, r, need) ==
    /\ SumSeq([i \in 1..Len(q) |-> q[i].qty]) - SumSeq([i \in 1..Len(r) |-> r[i].qty])
          = Min(Max(need, 0), SumSeq([i \in 1..Len(q) |-> q[i].qty]))
    /\ \E k \in 0..Len(q) :
          /\ Len(r) = Len(q) - k
          /\ \A i \in 1..Len(r) :
                /\ r[i].price = SurvivorOf(strat, q, i, k).price
                /\ r[i].ts_open = SurvivorOf(strat, q, i, k).ts_open
                /\ r[i].qty > 0
                /\ r[i].qty <= SurvivorOf(strat, q, i, k).qty
                /\ r[i].qty < SurvivorOf(strat, q, i, k).qty => i = PickLot(strat, r)

\* the queue r is the queue q as it was, or q and behind it one lot opened at the
\* fill's price and time
Grows(q, r, f) ==
    \/ r = q
    \/ /\ Len(r) = Len(q) + 1
       /\ SubSeq(r, 1, Len(q)) = q
       /\ r[Len(r)].price = f.price
       /\ r[Len(r)].ts_open = f.ts
       /\ r[Len(r)].qty > 0

\* what a fill does to the lots of its symbol, from the state old to the state new
LotsAfterFill(strat, f, old, new) ==
    /\ Survive(strat, OffsetLots(old, f), OffsetLots(new, f), f.qty)
    /\ IF f.side = SELL THEN Grows(old.short_lots, new.short_lots, f)
                        ELSE Grows(old.long_lots, new.long_lots, f)
    /\ OffsetLots(new, f) # <<>> => new.long_lots \o new.short_lots
                                      = IF f.side = SELL
                                        THEN OffsetLots(new, f) \o old.short_lots
                                        ELSE old.long_lots \o OffsetLots(new, f)

\* the state of a symbol in the dict d, an empty one if d has none
StateIn(d, sym) == IF sym \in DOMAIN d THEN d[sym] ELSE SymbolState

\* what a seed leaves in the queues of its symbol: no lot that was there, and at most
\* the one lot it opens
LotsAfterSeed(new, qty, avg_price, ts) ==
    new.long_lots \o new.short_lots \in {<<>>, <<Lot(Abs(qty), avg_price, ts)>>}

\* C23: a lot in a queue keeps its price and its open time and never gains quantity;
\* only a fill matched against its queue lowers its quantity, by what the fill takes,
\* and the lots that leave the queue are those at the end the strategy takes from;
\* what enters a queue is a new lot at the fill's price and time, behind the others,
\* or the one lot of a seed, which discards the lots there were. So no lot that left
\* a queue is in a queue again.
C23_LotLifecycle ==
    [][/\ call'.op = "apply_fill" =>
             LotsAfterFill(strategy, call'.f, StateIn(state, call'.f.product),
                           state'[call'.f.product])
       /\ (call'.op = "set_initial_position" /\ call'.timestamp # None) =>
             LotsAfterSeed(state'[call'.symbol], call'.qty, call'.avg_price,
                           call'.timestamp[1])
       /\ call'.op = "process_fills" =>
             \A i \in 1..Len(call'.log) :
                 IF call'.log[i].op = "apply_fill"
                 THEN LotsAfterFill(strategy, call'.log[i].f,
                                    StateIn(DictBefore(i), call'.log[i].f.product),
                                    call'.log[i].after[call'.log[i].f.product])
                 ELSE LotsAfterSeed(call'.log[i].after[call'.log[i].symbol],
                                    call'.log[i].qty, call'.log[i].avg_price,
                                    call'.log[i].timestamp[1])]_vars

\* C23's case: of two sales in a batch the first has taken part of the seeded long lot
\* and the second has exhausted and removed it and opened a short lot.
C23_Witness ==
    /\ call.op = "process_fills"
    /\ Len(call.log) = 2
    /\ call.log[1].op = "apply_fill" /\ call.log[2].op = "apply_fill"
    /\ call.log[1].f.product = call.log[2].f.product
    /\ Len(call.log[1].after[call.log[1].f.product].long_lots) = 1
    /\ call.log[1].after[call.log[1].f.product].long_lots[1].qty < 50
    /\ call.log[1].after[call.log[1].f.product].short_lots = <<>>
    /\ state[call.log[2].f.product].long_lots = <<>>
    /\ Len(state[call.log[2].f.product].short_lots) = 1

\* the sequence h is the beginning of the sequence g
Prefix(h, g) == Len(h) <= Len(g) /\ SubSeq(g, 1, Len(h)) = h

\* from the state old to the state new of a symbol nothing but lots and last price changed
SeedFrame(old, new) ==
    /\ new.realized_pnl = old.realized_pnl
    /\ new.rpnl_hist = old.rpnl_hist
    /\ new.upnl_hist = old.upnl_hist

\* every history of the dict d is the beginning of the same history in the dict e
HistoriesGrow(d, e) ==
    \A sym \in DOMAIN d :
        /\ sym \in DOMAIN e
        /\ Prefix(d[sym].rpnl_hist, e[sym].rpnl_hist)
        /\ Prefix(d[sym].upnl_hist, e[sym].upnl_hist)

\* C24: a seed, applied at once or when process_fills resolves it, leaves the symbol's
\* realized PnL, its history of realized deltas, its history of unrealized snapshots and
\* the portfolio's realized total as they were; and over every operation each history
\* keeps what it had and only gets longer.
C24_SeedKeepsHistories ==
    [][/\ (call'.op = "set_initial_position" /\ call'.timestamp # None) =>
             /\ SeedFrame(StateIn(state, call'.symbol), state'[call'.symbol])
             /\ realized_total' = realized_total
       /\ call'.op = "process_fills" =>
             /\ Resolved(Eng, call'.fills).eng.realized_total = realized_total
             /\ \A i \in 1..Len(call'.log) :
                   /\ call'.log[i].op = "set_initial_position" =>
                         SeedFrame(StateIn(DictBefore(i), call'.log[i].symbol),
                                   call'.log[i].after[call'.log[i].symbol])
                   /\ HistoriesGrow(DictBefore(i), call'.log[i].after)
       /\ HistoriesGrow(state, state')]_vars

\* C24's case: a symbol that has realized a loss and has both histories is seeded again.
C24_Witness ==
    /\ call.op = "set_initial_position"
    /\ call.timestamp # None
    /\ call.symbol \in DOMAIN state
    /\ state[call.symbol].realized_pnl # 0
    /\ state[call.symbol].rpnl_hist # <<>>
    /\ state[call.symbol].upnl_hist # <<>>
    /\ realized_total # 0

\* C25: apply_fill of a fill whose quantity is zero or negative returns its tuple like
\* any other: the lot queues of the symbol, its realized PnL, its history of realized
\* deltas and the portfolio's realized total stay as they were and the realized delta
\* returned is 0, while the fill's price becomes the last price and one unrealized
\* snapshot, taken at that price, is appended.
C25_NonPositiveFill ==
    [][(call'.op = "apply_fill" /\ call'.f.qty <= 0) =>
          /\ state'[call'.f.product].long_lots
                = StateIn(state, call'.f.product).long_lots
          /\ state'[call'.f.product].short_lots
                = StateIn(state, call'.f.product).short_lots
          /\ state'[call'.f.product].realized_pnl
                = StateIn(state, call'.f.product).realized_pnl
          /\ state'[call'.f.product].rpnl_hist
                = StateIn(state, call'.f.product).rpnl_hist
          /\ realized_total' = realized_total
          /\ call'.ret.pnl = 0
          /\ call'.ret.realized_total = realized_total
          /\ state'[call'.f.product].last_price = Some(call'.f.price)
          /\ state'[call'.f.product].upnl_hist
                = Append(StateIn(state, call'.f.product).upnl_hist,
                         unrealized(state'[call'.f.product]))
          /\ OnlyChanged(state, state', call'.f.product)]_vars

\* C25's case: a fill of negative quantity has been applied on the side that would offset
\* the symbol's lots, after a fill that realized something, and has moved the last price.
C25_Witness ==
    /\ call.op = "apply_fill"
    /\ call.f.qty < 0
    /\ OffsetLots(state[call.f.product], call.f) # <<>>
    /\ state[call.f.product].rpnl_hist # <<>>
    /\ Len(state[call.f.product].upnl_hist) = 2
    /\ state[call.f.product].upnl_hist[1] # state[call.f.product].upnl_hist[2]

\* C26: the portfolio's realized total is the sum, over the symbols the engine knows,
\* of each symbol's cumulative realized PnL.
C26_TotalIsSumOfSymbols ==
    realized_total = StateIn(state, "X").realized_pnl + StateIn(state, "Y").realized_pnl

\* C26's case: a seeded symbol has realized a loss or a gain and the other symbol, with
\* nothing realized, holds a lot.
C26_Witness ==
    /\ DOMAIN state = Symbols
    /\ realized_total # 0
    /\ \E sym \in Symbols :
          /\ state[sym].realized_pnl = 0
          /\ state[sym].long_lots \o state[sym].short_lots # <<>>

\* the net quantity of a symbol moved by the fill's quantity, up for a BUY, down for a SELL
NetMoved(f, old, new) ==
    position(new) = position(old) + (IF f.side = BUY THEN f.qty ELSE - f.qty)

\* C27: under either strategy a fill of quantity q > 0 moves the net quantity of its
\* symbol, long quantity minus short quantity, by exactly q: up for a BUY and down for a
\* SELL, whether the fill is applied alone or inside a batch.
C27_NetQuantityMoves ==
    [][/\ (call'.op = "apply_fill" /\ call'.f.qty > 0) =>
             NetMoved(call'.f, StateIn(state, call'.f.product), state'[call'.f.product])
       /\ call'.op = "process_fills" =>
             \A i \in 1..Len(call'.log) :
                 (call'.log[i].op = "apply_fill" /\ call'.log[i].f.qty > 0) =>
                     NetMoved(call'.log[i].f,
                              StateIn(DictBefore(i), call'.log[i].f.product),
                              call'.log[i].after[call'.log[i].f.product])]_vars

\* C27's case: a fill has used up what was left of the lots on the other side, with a
\* realized result, and opened a lot with the remainder.
C27_Witness ==
    /\ call.op = "apply_fill"
    /\ call.ret.pnl # 0
    /\ OffsetLots(state[call.f.product], call.f) = <<>>
    /\ Len(state[call.f.product].long_lots \o state[call.f.product].short_lots) = 1
    /\ (state[call.f.product].long_lots \o state[call.f.product].short_lots)[1].ts_open
          = call.f.ts
    /\ (state[call.f.product].long_lots \o state[call.f.product].short_lots)[1].qty
          < call.f.qty

\* the two engines know the same symbols and have, for each, the same long quantity,
\* the same short quantity, the same last price and the same gross total
SameFigures ==
    /\ DOMAIN call.twin.state = DOMAIN state
    /\ \A sym \in DOMAIN state :
          /\ long_qty(call.twin.state[sym]) = long_qty(state[sym])
          /\ short_qty(call.twin.state[sym]) = short_qty(state[sym])
          /\ call.twin.state[sym].last_price = state[sym].last_price
          /\ call.twin.state[sym].realized_pnl + unrealized(call.twin.state[sym])
                = state[sym].realized_pnl + unrealized(state[sym])

\* C28 as stated: after every fill a FIFO engine and a LIFO engine given the same seeds
\* and fills agree, symbol by symbol, on long quantity, short quantity, last price and
\* gross total.
C28_AsStated ==
    call.op = "apply_fill" =>
        /\ SameFigures
        /\ call.twin_ret.gross_total_symbol = call.ret.gross_total_symbol

\* C28: a FIFO engine and a LIFO engine given the same seeds and fills, every seed coming
\* before the first fill of its symbol, agree after every call, symbol by symbol, on
\* long quantity, short quantity, last price and gross total, and after a fill on the
\* symbol gross total returned.
C28_StrategiesAgree ==
    (call.op # "none" /\ call.seeds_first) =>
        /\ SameFigures
        /\ call.op = "apply_fill" =>
              call.twin_ret.gross_total_symbol = call.ret.gross_total_symbol

\* C28's case: after a fill the two engines hold different lots and have realized
\* different amounts, no symbol having been seeded after a fill.
C28_Witness ==
    /\ call.op = "apply_fill"
    /\ call.seeds_first
    /\ call.twin.state[call.f.product].realized_pnl
          # state[call.f.product].realized_pnl
    /\ call.twin.state[call.f.product].long_lots # state[call.f.product].long_lots
    /\ call.twin_ret.up # call.ret.up

\* the places of the 'filled' events of an order, and whether it was cancelled
FilledAt(o) == {e \in 1..Len(o.events) : o.events[e].action = "filled"}
Cancelled(o) == \E e \in 1..Len(o.events) : o.events[e].action = "cancelled"

\* the fills of the list that are of the order's product; the orders read from a file
\* here have a product each
FillsFor(fills, o) == SelectSeq(fills, LAMBDA f : f.product = o.product)

LastPending(sym) ==
    pending[CHOOSE i \in 1..Len(pending) :
               /\ pending[i].symbol = sym
               /\ \A j \in (i + 1)..Len(pending) : pending[j].symbol # sym]

\* the lots a seed of quantity qty at avg_price opens at time ts: <<long lots, short lots>>
LotsOfSeed(qty, avg_price, ts) ==
    <<IF qty > 0 THEN <<Lot(qty, avg_price, ts)>> ELSE <<>>,
      IF qty < 0 THEN <<Lot(Abs(qty), avg_price, ts)>> ELSE <<>>>>

\* C30: a call of process_fills with at least one fill applies the deferred seeds in the
\* order they were registered, a minute before the earliest fill, and when the first
\* fill is applied the lots of every symbol that had a deferred seed are those of the
\* last deferred seed registered for it, whatever lots earlier fills or timestamped
\* seeds had left there.
C30_LastDeferredSeedWins ==
    [][(call'.op = "process_fills" /\ call'.fills # <<>> /\ pending # <<>>) =>
          /\ Len(call'.log) = Len(pending) + Len(call'.fills)
          /\ \A i \in 1..Len(pending) :
                /\ call'.log[i].op = "set_initial_position"
                /\ call'.log[i].symbol = pending[i].symbol
                /\ call'.log[i].qty = pending[i].qty
                /\ call'.log[i].avg_price = pending[i].avg_price
                /\ call'.log[i].timestamp = Some(MinTs(call'.fills) - OneMinute)
          /\ call'.log[Len(pending) + 1].op = "apply_fill"
          /\ \A i \in 1..Len(pending) :
                <<DictBefore(Len(pending) + 1)[pending[i].symbol].long_lots,
                  DictBefore(Len(pending) + 1)[pending[i].symbol].short_lots>>
                   = LotsOfSeed(LastPending(pending[i].symbol).qty,
                                LastPending(pending[i].symbol).avg_price,
                                MinTs(call'.fills) - OneMinute)]_vars

\* C30's case: a batch with a fill of one symbol has resolved a deferred seed of the other
\* symbol, which had a fill before and now holds the seed's lot alone.
C30_Witness ==
    /\ call.op = "process_fills"
    /\ Len(call.log) = 2
    /\ call.log[1].op = "set_initial_position"
    /\ call.log[2].op = "apply_fill"
    /\ call.log[2].f.product # call.log[1].symbol
    /\ state[call.log[1].symbol].upnl_hist # <<>>
    /\ <<state[call.log[1].symbol].long_lots, state[call.log[1].symbol].short_lots>>
          = LotsOfSeed(call.log[1].qty, call.log[1].avg_price, call.log[2].f.ts - OneMinute)
    /\ call.log[1].qty # 0

====
